---- MODULE Spec2Model ----
(***************************************************************************)
(* Model of two components of the ui5-webcomponents repository:            *)
(*   - ui5-toast (packages/main/src/Toast.ts): the show / re-show /        *)
(*     auto-close logic and the computed root styles;                      *)
(*   - ui5-upload-collection-item, as documented by its browser tests      *)
(*     (packages/fiori/test/specs/UploadCollection.spec.js): edit, rename, *)
(*     cancel and the visibility of the action buttons.                    *)
(*                                                                         *)
(* Numbers: Toast.styles divides by 3 in JavaScript floating point; the    *)
(* model computes with exact rationals [num, den] in lowest terms.         *)
(* Strings: a CSS value is a tuple, <<>> for the empty string, <<q, "ms">> *)
(* for the template string `${q}ms`, <<"0">> for "0".  A file name is a    *)
(* sequence of one-character strings.                                      *)
(* The z-index entry of Toast.styles (getNextZIndex(), a global counter of *)
(* the popup utilities) is left out: no other part of the toast reads it.  *)
(***************************************************************************)
EXTENDS Integers, Sequences, FiniteSets, TLC

VARIABLES
    duration,      \* Toast.duration (public property, Integer)
    open,          \* Toast.open
    hover,         \* Toast.hover
    domRendered,   \* Toast.domRendered
    _reopen,       \* Toast._reopen (plain field, no invalidation)
    rafPending,    \* number of requestAnimationFrame callbacks of _initiateOpening not yet run
    invalidated,   \* the framework has a re-rendering of the toast scheduled
    rendered,      \* what the last rendering put in the DOM: [dom, root]
    last,          \* the handler that ran last (history variable)
    budget,        \* application / user interactions left (fair specification only)
    fileName,      \* UploadCollectionItem.fileName
    _editing,      \* UploadCollectionItem._editing (the "_editing" attribute)
    uploadState,   \* UploadCollectionItem.uploadState
    type,          \* the list item type, "Active" or "Detail"
    hidden,        \* the set of buttons hidden by hide-delete / hide-retry / hide-terminate
    inputValue,    \* the text in the edit input (empty while not editing)
    nameBeforeEdit \* the file name when the edit started (history variable)

toastVars == <<duration, open, hover, domRendered, _reopen, rafPending, invalidated, rendered>>

itemVars == <<fileName, _editing, uploadState, type, hidden, inputValue, nameBeforeEdit>>

vars == <<toastVars, last, budget, itemVars>>

----------------------------------------------------------------------------
(* Bounds *)

\* at most this many animation-frame callbacks are pending at once
MaxRaf == 2

\* the duration property ranges over the values within MaxDelta of 0,
\* MIN_DURATION and 3 * MAX_DURATION
MaxDelta == 1

\* in the fair specification the application and the user interact with the
\* toast at most this many times (show, pointer entering, property or slot change)
MaxCalls == 4

\* a file name has at most MaxNameLen characters
MaxNameLen == 3

\* the text typed into the edit input has at most MaxTextLen characters
MaxTextLen == 2

----------------------------------------------------------------------------
(* Constants of Toast.ts *)

MIN_DURATION == 500

MAX_DURATION == 1000

DEFAULT_DURATION == 3000

----------------------------------------------------------------------------
(* Exact rational arithmetic for the JavaScript numbers of Toast.styles *)

Abs(n) == IF n < 0 THEN -n ELSE n

RECURSIVE Gcd(_, _)
Gcd(a, b) == IF b = 0 THEN a ELSE Gcd(b, a % b)

\* n / d (d > 0) in lowest terms
Rat(n, d) ==
    LET g == Gcd(Abs(n), d)
    IN  [num |-> n \div g, den |-> d \div g]

RatMin(x, y) == IF x.num * y.den <= y.num * x.den THEN x ELSE y

RatSub(x, y) == Rat(x.num * y.den - y.num * x.den, x.den * y.den)

RatAdd(x, y) == Rat(x.num * y.den + y.num * x.den, x.den * y.den)

RatLeq(x, y) == x.num * y.den <= y.num * x.den

\* the empty string of a style value
EmptyStr == <<>>

\* the template string `${q}ms`
Ms(q) == <<q, "ms">>

----------------------------------------------------------------------------
(* Toast: getters *)

\* mutant: the duration is not clamped to the minimum
effectiveDuration_unclamped == duration

effectiveDuration ==
    IF duration < MIN_DURATION THEN MIN_DURATION ELSE duration

\* mutant: the transition takes half of the duration
transitionDuration_half ==
    RatMin(Rat(effectiveDuration, 2), Rat(MAX_DURATION, 1))

transitionDuration ==
    RatMin(Rat(effectiveDuration, 3), Rat(MAX_DURATION, 1))

\* mutant: the delay is computed from the duration property itself
styles_delayFromDuration ==
    [root |->
        [transition_duration |-> IF open THEN Ms(transitionDuration) ELSE EmptyStr,
         transition_delay    |-> IF open
                                 THEN Ms(RatSub(Rat(duration, 1), transitionDuration))
                                 ELSE EmptyStr,
         opacity             |-> IF open /\ ~hover THEN <<"0">> ELSE EmptyStr]]

\* mutant: the opacity is altered for a hovered toast too
styles_opacityIgnoresHover ==
    [root |->
        [transition_duration |-> IF open THEN Ms(transitionDuration) ELSE EmptyStr,
         transition_delay    |-> IF open
                                 THEN Ms(RatSub(Rat(effectiveDuration, 1), transitionDuration))
                                 ELSE EmptyStr,
         opacity             |-> IF open THEN <<"0">> ELSE EmptyStr]]

styles ==
    [root |->
        [transition_duration |-> IF open THEN Ms(transitionDuration) ELSE EmptyStr,
         transition_delay    |-> IF open
                                 THEN Ms(RatSub(Rat(effectiveDuration, 1), transitionDuration))
                                 ELSE EmptyStr,
         opacity             |-> IF open /\ ~hover THEN <<"0">> ELSE EmptyStr]]

----------------------------------------------------------------------------
(* Toast: state *)

Durations ==
    { c + k : c \in {0, MIN_DURATION, 3 * MAX_DURATION},
              k \in (0 - MaxDelta)..MaxDelta }

\* the template renders the root element, with styles.root, only if domRendered
Template ==
    [dom  |-> domRendered,
     root |-> IF domRendered
              THEN styles.root
              ELSE [transition_duration |-> EmptyStr,
                    transition_delay    |-> EmptyStr,
                    opacity             |-> EmptyStr]]

ToastInit ==
    /\ duration = DEFAULT_DURATION
    /\ open = FALSE
    /\ hover = FALSE
    /\ domRendered = FALSE
    /\ _reopen = FALSE
    /\ rafPending = 0
    /\ invalidated = FALSE
    /\ rendered = Template
    /\ last = "constructor"
    /\ budget = MaxCalls

\* a changed @property invalidates the component: a rendering gets scheduled
Invalidate(before) ==
    invalidated' = (before \/ <<duration, open, hover, domRendered>>' #
                              <<duration, open, hover, domRendered>>)

----------------------------------------------------------------------------
(* Toast: operations *)

_initiateOpening ==
    /\ rafPending < MaxRaf
    /\ domRendered' = TRUE
    /\ rafPending' = rafPending + 1

\* mutant: show() opens a closed toast at once, without animation frame
show_opensAtOnce ==
    /\ IF open
       THEN /\ _reopen' = TRUE
            /\ open' = FALSE
            /\ UNCHANGED <<domRendered, rafPending>>
       ELSE /\ domRendered' = TRUE
            /\ open' = TRUE
            /\ UNCHANGED <<rafPending, _reopen>>
    /\ UNCHANGED <<duration, hover, rendered>>
    /\ Invalidate(invalidated)
    /\ last' = "show"

show ==
    /\ IF open
       THEN /\ _reopen' = TRUE
            /\ open' = FALSE
            /\ UNCHANGED <<domRendered, rafPending>>
       ELSE /\ _initiateOpening
            /\ UNCHANGED <<open, _reopen>>
    /\ UNCHANGED <<duration, hover, rendered>>
    /\ Invalidate(invalidated)
    /\ last' = "show"

\* the callback of _initiateOpening, run by the browser
animationFrame ==
    /\ rafPending > 0
    /\ rafPending' = rafPending - 1
    /\ open' = TRUE
    /\ UNCHANGED <<duration, hover, domRendered, _reopen, rendered>>
    /\ Invalidate(invalidated)
    /\ last' = "animationFrame"

\* the framework renders the invalidated toast and calls the hook
onAfterRendering ==
    /\ invalidated
    /\ rendered' = Template
    /\ IF _reopen
       THEN /\ _reopen' = FALSE
            /\ _initiateOpening
       ELSE UNCHANGED <<_reopen, domRendered, rafPending>>
    /\ UNCHANGED <<duration, open, hover>>
    /\ Invalidate(FALSE)
    /\ last' = "onAfterRendering"

\* mutant: the end of the transition closes a hovered toast too
_ontransitionend_ignoresHover ==
    /\ rendered.dom
    /\ rendered.root.transition_duration # EmptyStr
    /\ domRendered' = FALSE
    /\ open' = FALSE
    /\ UNCHANGED <<duration, hover, _reopen, rafPending, rendered>>
    /\ Invalidate(invalidated)
    /\ last' = "_ontransitionend"

\* mutant: the end of the transition leaves the DOM rendered
_ontransitionend_keepsDom ==
    /\ rendered.dom
    /\ rendered.root.transition_duration # EmptyStr
    /\ IF hover
       THEN UNCHANGED <<domRendered, open>>
       ELSE /\ open' = FALSE
            /\ UNCHANGED domRendered
    /\ UNCHANGED <<duration, hover, _reopen, rafPending, rendered>>
    /\ Invalidate(invalidated)
    /\ last' = "_ontransitionend"

\* the browser dispatches transitionend to the rendered root element, which
\* has a transition only with the styles of an open toast
_ontransitionend ==
    /\ rendered.dom
    /\ rendered.root.transition_duration # EmptyStr
    /\ IF hover
       THEN UNCHANGED <<domRendered, open>>
       ELSE /\ domRendered' = FALSE
            /\ open' = FALSE
    /\ UNCHANGED <<duration, hover, _reopen, rafPending, rendered>>
    /\ Invalidate(invalidated)
    /\ last' = "_ontransitionend"

_onmouseover ==
    /\ rendered.dom
    /\ hover' = TRUE
    /\ UNCHANGED <<duration, open, domRendered, _reopen, rafPending, rendered>>
    /\ Invalidate(invalidated)
    /\ last' = "_onmouseover"

_onmouseleave ==
    /\ rendered.dom
    /\ hover' = FALSE
    /\ UNCHANGED <<duration, open, domRendered, _reopen, rafPending, rendered>>
    /\ Invalidate(invalidated)
    /\ last' = "_onmouseleave"

\* the application sets the duration property
setDuration ==
    /\ \E d \in Durations \ {duration} : duration' = d
    /\ UNCHANGED <<open, hover, domRendered, _reopen, rafPending, rendered>>
    /\ Invalidate(invalidated)
    /\ last' = "setDuration"

\* the application changes the content of the default slot
slotChange ==
    /\ ~invalidated
    /\ invalidated' = TRUE
    /\ UNCHANGED <<duration, open, hover, domRendered, _reopen, rafPending, rendered>>
    /\ last' = "slotChange"

----------------------------------------------------------------------------
(* Toast: specifications *)

\* the page holds no upload-collection item that changes
NoItem ==
    /\ fileName = <<>>
    /\ _editing = FALSE
    /\ uploadState = "Ready"
    /\ type = "Active"
    /\ hidden = {}
    /\ inputValue = <<>>
    /\ nameBeforeEdit = <<>>

Init == ToastInit /\ NoItem

Next ==
    \/ show /\ UNCHANGED <<budget, itemVars>>
    \/ animationFrame /\ UNCHANGED <<budget, itemVars>>
    \/ onAfterRendering /\ UNCHANGED <<budget, itemVars>>
    \/ _ontransitionend /\ UNCHANGED <<budget, itemVars>>
    \/ _onmouseover /\ UNCHANGED <<budget, itemVars>>
    \/ _onmouseleave /\ UNCHANGED <<budget, itemVars>>
    \/ setDuration /\ UNCHANGED <<budget, itemVars>>
    \/ slotChange /\ UNCHANGED <<budget, itemVars>>

Spec == Init /\ [][Next]_vars

\* an interaction of the application or the user, counted against the budget
Call(A) == budget > 0 /\ A /\ budget' = budget - 1 /\ UNCHANGED itemVars

\* a step of the framework or the browser
Step(A) == A /\ UNCHANGED <<budget, itemVars>>

FairNext ==
    \/ Call(show)
    \/ Call(_onmouseover)
    \/ Call(setDuration)
    \/ Call(slotChange)
    \/ Step(animationFrame)
    \/ Step(onAfterRendering)
    \/ Step(_ontransitionend)
    \/ Step(_onmouseleave)

\* finitely many interactions; the framework renders, the browser runs the
\* animation-frame callbacks and ends the transitions, the pointer leaves
FairSpec ==
    /\ Init
    /\ [][FairNext]_vars
    /\ WF_vars(Step(animationFrame))
    /\ WF_vars(Step(onAfterRendering))
    /\ WF_vars(Step(_ontransitionend))
    /\ WF_vars(Step(_onmouseleave))

----------------------------------------------------------------------------
(* Toast: properties *)

\* the number q of a style value `${q}ms`
MsValue(str) == str[1]

\* a rendering of the toast without transition: no root element, or the root
\* element with the (empty) styles of a toast that is not open
RootReset(r) == r.root.transition_duration = EmptyStr

\* C1: for every value of the duration property the effective duration is at
\* least 500 ms: 500 when duration < 500, the duration otherwise.
C1_EffectiveDurationAtLeastMin ==
    /\ effectiveDuration >= 500
    /\ duration < 500 => effectiveDuration = 500
    /\ duration >= 500 => effectiveDuration = duration

\* a duration below the minimum has been set and the open toast rendered with it
C1_Witness ==
    /\ duration < 500
    /\ open
    /\ last = "onAfterRendering"
    /\ rendered.root.transition_duration = Ms(Rat(500, 3))

\* C2: the toast disappears automatically: after any call of show(), with
\* finitely many interactions, fair rendering, animation frames, transition ends
\* and a pointer that leaves, the toast eventually is closed (not open, no DOM).
C2_ShownToastEventuallyCloses ==
    (last = "show") ~> (~open /\ ~domRendered)

\* a shown toast has been closed by the end of its transition
C2_Witness ==
    /\ last = "_ontransitionend"
    /\ ~open
    /\ ~domRendered
    /\ budget < MaxCalls

\* C3: show() on a toast that is not open sets domRendered within the call and
\* leaves open alone; open becomes true only in the animation-frame callback;
\* every show() on a toast that is not open is eventually followed by open.
C3_ShowOpensInAnimationFrame ==
    /\ [][(last' = "show" /\ ~open) => (domRendered' /\ ~open')]_vars
    /\ [][(~open /\ open') => last' = "animationFrame"]_vars
    /\ (last = "show" /\ ~open) ~> open

\* the callback scheduled by show() has opened the toast
C3_Witness ==
    /\ last = "animationFrame"
    /\ open
    /\ domRendered
    /\ ~_reopen

\* C7: while the toast is open the transition duration is a third of the
\* effective duration, at most 1000 ms: three times it is the effective duration
\* up to 3000 ms, and it is 1000 ms from 3000 ms on.
C7_TransitionDurationThirdCapped ==
    open =>
        LET q == MsValue(styles.root.transition_duration)
        IN  /\ styles.root.transition_duration = Ms(q)
            /\ RatLeq(q, Rat(1000, 1))
            /\ effectiveDuration <= 3000 => 3 * q.num = effectiveDuration * q.den
            /\ effectiveDuration >= 3000 => q = Rat(1000, 1)

\* an open toast whose transition duration is not a whole number of ms
C7_Witness ==
    /\ open
    /\ effectiveDuration = 500
    /\ styles.root.transition_duration = Ms([num |-> 500, den |-> 3])

C9_ReshowResetsTransition ==
    /\ [][(last' = "show" /\ open) =>
            (~open' /\ _reopen' /\ UNCHANGED <<domRendered, rafPending>>)]_vars
    /\ [][last' = "onAfterRendering" =>
            /\ ~_reopen'
            /\ rafPending' = (IF _reopen THEN rafPending + 1 ELSE rafPending)]_vars
    /\ (last = "show" /\ _reopen) ~> open
    /\ [][(last' = "onAfterRendering" /\ _reopen) =>
            (RootReset(rendered) \/ RootReset(rendered'))]_vars

\* C10: _ontransitionend leaves open and domRendered alone while the toast is
\* hovered and sets both to false otherwise; _onmouseover and _onmouseleave
\* change the hover flag only.
C10_HoverKeepsToastOpen ==
    /\ [][last' = "_ontransitionend" =>
            IF hover
            THEN UNCHANGED <<open, domRendered, hover, _reopen, rafPending, duration>>
            ELSE ~open' /\ ~domRendered']_vars
    /\ [][last' \in {"_onmouseover", "_onmouseleave"} =>
            /\ hover' = (last' = "_onmouseover")
            /\ UNCHANGED <<open, domRendered, _reopen, rafPending, duration>>]_vars

\* the transition of a hovered, open toast has ended and the toast is still open
C10_Witness ==
    /\ last = "_ontransitionend"
    /\ hover
    /\ open
    /\ domRendered

\* C11: the opacity of the root styles is "0" exactly when the toast is open and
\* not hovered, and empty otherwise; when the toast is not open,
\* transition-duration, transition-delay and opacity are all empty, and so is
\* what a rendering of a closed or just-reset toast puts in the DOM.
C11_OpacityOnlyWhenOpenAndNotHovered ==
    /\ styles.root.opacity \in {<<"0">>, EmptyStr}
    /\ styles.root.opacity = <<"0">> <=> (open /\ ~hover)
    /\ ~open =>
        /\ styles.root.transition_duration = EmptyStr
        /\ styles.root.transition_delay = EmptyStr
        /\ styles.root.opacity = EmptyStr
    /\ open =>
        /\ styles.root.transition_duration # EmptyStr
        /\ styles.root.transition_delay # EmptyStr
    /\ (last = "onAfterRendering" /\ (~open \/ hover)) =>
        rendered.root.opacity = EmptyStr
    /\ (last = "onAfterRendering" /\ ~open) => RootReset(rendered)

\* an open, hovered toast has been rendered: its transition is set, its opacity
\* is not altered
C11_Witness ==
    /\ last = "onAfterRendering"
    /\ open
    /\ hover
    /\ rendered.dom
    /\ rendered.root.transition_duration # EmptyStr
    /\ rendered.root.opacity = EmptyStr

----------------------------------------------------------------------------
(* Upload-collection item, as its browser tests document it *)

Chars == {"a", "."}

RECURSIVE Strings(_)
Strings(n) ==
    IF n = 0
    THEN {<<>>}
    ELSE Strings(n - 1) \cup
         { Append(w, c) : w \in { v \in Strings(n - 1) : Len(v) = n - 1 }, c \in Chars }

FileNames == Strings(MaxNameLen)

Texts == Strings(MaxTextLen)

UploadStates == {"Ready", "Error", "Uploading"}

ItemTypes == {"Active", "Detail"}

Buttons == {"delete", "retry", "terminate"}

\* String.prototype.lastIndexOf for a one-character needle: the 0-based
\* position of the last occurrence at or before position from, or -1
RECURSIVE lastIndexOfFrom(_, _, _)
lastIndexOfFrom(str, c, from) ==
    IF from < 0 THEN 0 - 1
    ELSE IF str[from + 1] = c THEN from
    ELSE lastIndexOfFrom(str, c, from - 1)

lastIndexOf(str, c) == lastIndexOfFrom(str, c, Len(str) - 1)

\* mutant: the leading dot of a hidden file name starts an extension
fileExtensionOf_hiddenToo(name) ==
    LET dotPos == lastIndexOf(name, ".")
    IN  IF dotPos < 0 THEN <<>> ELSE SubSeq(name, dotPos + 1, Len(name))

\* the extension of a file name, with its dot; none for a name without dot or
\* a hidden file name whose only dot is its first character
fileExtensionOf(name) ==
    LET dotPos == lastIndexOf(name, ".")
    IN  IF dotPos < 1 THEN <<>> ELSE SubSeq(name, dotPos + 1, Len(name))

_fileExtension == fileExtensionOf(fileName)

_fileNameWithoutExtension ==
    SubSeq(fileName, 1, Len(fileName) - Len(_fileExtension))

\* what the item shows
showEditContainer == _editing

showEditButtons == _editing

showDetailButton == type = "Detail" /\ ~_editing /\ uploadState # "Uploading"

\* mutant: the retry button stays while the item is edited
showRetryButton_whileEditing == uploadState = "Error" /\ "retry" \notin hidden

showRetryButton == uploadState = "Error" /\ ~_editing /\ "retry" \notin hidden

showTerminateButton == uploadState = "Uploading" /\ "terminate" \notin hidden

showDeleteButton == "delete" \notin hidden

deleteButtonDisabled == uploadState = "Uploading"

\* the text of .ui5-uci-file-name, rendered while the item is not edited
displayedFileName == fileName

ItemInit ==
    /\ fileName \in FileNames
    /\ _editing = FALSE
    /\ uploadState \in UploadStates
    /\ type \in ItemTypes
    /\ hidden \in SUBSET Buttons
    /\ inputValue = <<>>
    /\ nameBeforeEdit = fileName

\* a click on the detail (edit) button: the input holds the name without extension
_onDetailClick ==
    /\ showDetailButton
    /\ _editing' = TRUE
    /\ inputValue' = _fileNameWithoutExtension
    /\ nameBeforeEdit' = fileName
    /\ UNCHANGED <<fileName, uploadState, type, hidden>>
    /\ last' = "_onDetailClick"

\* the user types a text into the edit input
typeText ==
    /\ _editing
    /\ \E t \in Texts \ {inputValue} : inputValue' = t
    /\ UNCHANGED <<fileName, _editing, uploadState, type, hidden, nameBeforeEdit>>
    /\ last' = "typeText"

\* Enter in the edit input, or the rename button
_onRename ==
    /\ _editing
    /\ Len(inputValue) + Len(_fileExtension) <= MaxNameLen
    /\ fileName' = inputValue \o _fileExtension
    /\ _editing' = FALSE
    /\ inputValue' = <<>>
    /\ UNCHANGED <<uploadState, type, hidden, nameBeforeEdit>>
    /\ last' = "_onRename"

\* mutant: cancelling applies the typed text
_onRenameCancel_renames ==
    /\ _editing
    /\ Len(inputValue) + Len(_fileExtension) <= MaxNameLen
    /\ fileName' = inputValue \o _fileExtension
    /\ _editing' = FALSE
    /\ inputValue' = <<>>
    /\ UNCHANGED <<uploadState, type, hidden, nameBeforeEdit>>
    /\ last' = "_onRenameCancel"

\* the cancel button, or Escape in the edit input
_onRenameCancel ==
    /\ _editing
    /\ _editing' = FALSE
    /\ inputValue' = <<>>
    /\ UNCHANGED <<fileName, uploadState, type, hidden, nameBeforeEdit>>
    /\ last' = "_onRenameCancel"

\* the tests reset an item: removeAttribute("_editing")
removeEditingAttribute ==
    /\ _editing
    /\ _editing' = FALSE
    /\ inputValue' = <<>>
    /\ UNCHANGED <<fileName, uploadState, type, hidden, nameBeforeEdit>>
    /\ last' = "removeAttribute"

\* the retry button fires 'retry'
_onRetry ==
    /\ showRetryButton
    /\ UNCHANGED itemVars
    /\ last' = "_onRetry"

\* the terminate button fires 'terminate'
_onTerminate ==
    /\ showTerminateButton
    /\ UNCHANGED itemVars
    /\ last' = "_onTerminate"

\* the application sets the upload state, the item type or a hide flag
setItemProperty ==
    /\ \/ /\ \E u \in UploadStates \ {uploadState} : uploadState' = u
          /\ UNCHANGED <<type, hidden>>
       \/ /\ \E t \in ItemTypes \ {type} : type' = t
          /\ UNCHANGED <<uploadState, hidden>>
       \/ /\ \E h \in (SUBSET Buttons) \ {hidden} : hidden' = h
          /\ UNCHANGED <<uploadState, type>>
    /\ UNCHANGED <<fileName, _editing, inputValue, nameBeforeEdit>>
    /\ last' = "setItemProperty"

ItemNext ==
    \/ _onDetailClick /\ UNCHANGED <<toastVars, budget>>
    \/ typeText /\ UNCHANGED <<toastVars, budget>>
    \/ _onRename /\ UNCHANGED <<toastVars, budget>>
    \/ _onRenameCancel /\ UNCHANGED <<toastVars, budget>>
    \/ removeEditingAttribute /\ UNCHANGED <<toastVars, budget>>
    \/ _onRetry /\ UNCHANGED <<toastVars, budget>>
    \/ _onTerminate /\ UNCHANGED <<toastVars, budget>>
    \/ setItemProperty /\ UNCHANGED <<toastVars, budget>>

\* the items of the test page, next to a toast that is never shown
ItemSpecInit == ToastInit /\ ItemInit

ItemSpec == ItemSpecInit /\ [][ItemNext]_vars

----------------------------------------------------------------------------
(* Upload-collection item: properties *)

\* the positions (from 2 on) of the dots that start an extension
ExtensionDots(name) == { i \in 2..Len(name) : name[i] = "." }

Max(S) == CHOOSE m \in S : \A x \in S : x <= m

\* C4: confirming an edit with Enter keeps the extension, the string after the
\* last dot of the current name: without extension (no dot, or only a leading
\* dot) the new name is the typed text, otherwise the typed text, '.' and the
\* previous extension.
C4_RenameKeepsExtension ==
    [][last' = "_onRename" =>
        IF ExtensionDots(fileName) = {}
        THEN fileName' = inputValue
        ELSE fileName' = inputValue \o <<".">> \o
                SubSeq(fileName, Max(ExtensionDots(fileName)) + 1, Len(fileName))]_vars

\* a name with an extension has been renamed, the extension kept
C4_Witness ==
    /\ last = "_onRename"
    /\ nameBeforeEdit = <<"a", ".", "a">>
    /\ fileName = <<".", "a">>

\* C5: after entering edit mode, typing and activating the cancel button, the
\* displayed file name is the name before the edit.
C5_CancelKeepsFileName ==
    last = "_onRenameCancel" => (~_editing /\ displayedFileName = nameBeforeEdit)

\* an edit has been cancelled
C5_Witness ==
    /\ last = "_onRenameCancel"
    /\ fileName = <<".", "a">>
    /\ ~_editing

====
